---- MODULE Spec2Model ----
(***************************************************************************)
(* Task management app (src/app11.js): an Express API over a Mongoose      *)
(* model `Task`, and the React component `App` that calls it.              *)
(*                                                                         *)
(* A route handler is an async function; it is modelled by the steps       *)
(* between its awaits: the synchronous prefix up to `await connectDB()`    *)
(* (the Arrive step), the completion of mongoose.connect, the turn in      *)
(* which the handler resumes and starts its store call, the effect of the  *)
(* call at the store (one atomic MongoDB operation), and the turn in which *)
(* the handler resumes with the reply and writes its response.  Steps of   *)
(* different handlers interleave freely.                                   *)
(***************************************************************************)
EXTENDS Integers, Sequences, FiniteSets, TLC

----------------------------------------------------------------------------
(* Bounds of the model *)

\* requests the API clients send in a run of Spec
MaxReqs == 3
\* handlers the server has suspended at an await at a time
MaxOpen == 2
\* requests the UI sends in a run of SpecUI
MaxUiReqs == 5

----------------------------------------------------------------------------
(* Values *)

\* a key that is missing from a JSON body, or a path that is not set in a document
Undef == "<undefined>"
\* a body without _id / a route without :id
NoId == 0
\* a :id that is not a 24-hex-digit ObjectId string
BadId == -1
\* an ObjectId a client makes up and sends as _id or as :id
ClientId == 101
\* a body without the date key
NoDate == -1
\* the date key sent as '' (the cleared form field)
EmptyStr == -2
\* a date path holding null
NullDate == 0
\* the Date a client sends as createdAt (before every value of the clock)
OldDate == 0
\* the date '2025-02-04' of the edit payload
EditDate == 1

\* HTTP statuses
Created == 201
Ok == 200
NoContent == 204
ServerError == 500
\* no status line has been written
NoStatus == 0

\* mongoose.connection.readyState
Disconnected == 0
Connected == 1
Connecting == 2

\* What the build does with a rejected promise of an async route handler, which
\* no route catches: Express 5 passes it to the default error handler (500);
\* Express 4 drops it and the request is never answered, and Node then either
\* keeps running (warning only) or exits on the unhandled rejection.
RejectionOutcomes == {"forward500", "ignore", "exit"}

----------------------------------------------------------------------------
(* Request bodies: a record of the keys the handlers read, Undef/NoId/NoDate
   standing for a missing key *)

EmptyBody ==
  [id |-> NoId, title |-> Undef, description |-> Undef, dueDate |-> NoDate,
   isCompleted |-> Undef, createdAt |-> NoDate]

\* bodies the API clients POST
PostBodies ==
  { [EmptyBody EXCEPT !.title = "A", !.description = "d", !.dueDate = EditDate],
    [EmptyBody EXCEPT !.title = "B", !.id = ClientId, !.isCompleted = "true"],
    [EmptyBody EXCEPT !.title = ""],
    [EmptyBody EXCEPT !.description = "d"] }

\* const updatedTask of handleEdit
updatedTask ==
  [EmptyBody EXCEPT !.title = "Updated Title",
                    !.description = "Updated Description",
                    !.dueDate = EditDate]

\* bodies the API clients PUT
PutBodies ==
  { [EmptyBody EXCEPT !.title = "X"],
    [EmptyBody EXCEPT !.title = "", !.isCompleted = "true", !.createdAt = OldDate] }

----------------------------------------------------------------------------
(* State *)

VARIABLES
  db,            \* the tasks collection: _id -> document
  readyState,    \* mongoose.connection.readyState
  nextOid,       \* the next ObjectId the driver generates
  now,           \* Date.now(): read by the createdAt default, later at each read
  onRejection,   \* the build's treatment of a rejected handler, "unobserved"
                 \* until a handler rejects
  serverUp,      \* the node process is running
  reqs,          \* the requests in flight, in the order they were sent, each
                 \* with the position of its handler; a request leaves when
                 \* its response has been taken
  sent,          \* the number of requests sent so far
  last,          \* the response taken last, with the method and the body of
                 \* the request it answers
  everCreated,   \* history: the ids of the tasks a POST answered 201 for
  live,          \* history: ids the store inserted and has not removed since
  deleted204,    \* history: the ids a DELETE answered 204 for
  tasks,         \* App: useState([]) - the displayed list
  formData,      \* App: useState({title: '', description: '', dueDate: ''})
  mounted,       \* App: the useEffect(.., []) of the first render has run
  failed         \* history: an axios call of the UI has thrown

vars == <<db, readyState, nextOid, now, onRejection, serverUp, reqs, sent, last,
          everCreated, live, deleted204, tasks, formData, mounted, failed>>

uiVars == <<tasks, formData, mounted, failed>>

Reqs == 1..Len(reqs)

----------------------------------------------------------------------------
(* TaskSchema and the Mongoose operations the routes call *)

\* SchemaDate cast: '' becomes null, a date string becomes that Date
CastDate(v) == IF v = EmptyStr THEN NullDate ELSE v

\* SchemaBoolean cast of a present key
CastBool(v) == v = "true"

\* new Task(body): the paths of TaskSchema set from the body, with the schema's
\* defaults (isCompleted: false, createdAt: Date.now) and _id from the body when
\* it has one, a fresh ObjectId otherwise
Task(body, oid, time) ==
  [id          |-> IF body.id # NoId THEN body.id ELSE oid,
   title       |-> body.title,
   description |-> body.description,
   dueDate     |-> IF body.dueDate = NoDate THEN NoDate ELSE CastDate(body.dueDate),
   isCompleted |-> IF body.isCompleted = Undef THEN FALSE ELSE CastBool(body.isCompleted),
   createdAt   |-> IF body.createdAt = NoDate THEN time ELSE body.createdAt]

\* a stand-in document for requests that carry none
NoDoc == Task(EmptyBody, NoId, NoDate)

\* a validator that takes the empty string for a title
checkRequired_acceptsEmpty(doc) == doc.title # Undef

\* title: {type: String, required: true}: the required validator of a String path
\* fails for a missing value and for the empty string
checkRequired(doc) == doc.title # Undef /\ doc.title # ""

\* find() that leaves out the completed tasks
find_onlyOpen(coll) == {coll[i] : i \in {j \in DOMAIN coll : ~coll[j].isCompleted}}

\* Task.find(): every document of the collection
find(coll) == {coll[i] : i \in DOMAIN coll}

\* an update that replaces the document by the body's fields
applyUpdate_replace(doc, body) ==
  [Task(body, doc.id, doc.createdAt) EXCEPT !.id = doc.id]

\* the update document of findByIdAndUpdate(id, body): each key of the body is
\* $set on the matching document after casting; no validator runs
\* (runValidators is not set)
applyUpdate(doc, body) ==
  [id          |-> doc.id,
   title       |-> IF body.title # Undef THEN body.title ELSE doc.title,
   description |-> IF body.description # Undef THEN body.description ELSE doc.description,
   dueDate     |-> IF body.dueDate # NoDate THEN CastDate(body.dueDate) ELSE doc.dueDate,
   isCompleted |-> IF body.isCompleted # Undef THEN CastBool(body.isCompleted) ELSE doc.isCompleted,
   createdAt   |-> IF body.createdAt # NoDate THEN body.createdAt ELSE doc.createdAt]

\* the collection after findByIdAndUpdate(id, body, {new: true}); no upsert
findByIdAndUpdate(coll, id, body) ==
  IF id \in DOMAIN coll THEN [coll EXCEPT ![id] = applyUpdate(@, body)] ELSE coll

\* the collection after findByIdAndDelete(id)
findByIdAndDelete(coll, id) == [i \in DOMAIN coll \ {id} |-> coll[i]]

\* the collection after a successful insert of doc
insert(coll, doc) == [i \in DOMAIN coll \cup {doc.id} |-> IF i = doc.id THEN doc ELSE coll[i]]

IdsOf(docs) == {d.id : d \in docs}

----------------------------------------------------------------------------
(* Requests and the unhandled rejection *)

\* pc: "connecting" (awaits mongoose.connect), "op" (connectDB has returned,
\* the handler has not resumed yet), "saving" (new Task built, save() awaited),
\* "reply" (the store call has taken effect, its reply is on the way to the
\* handler; resDocs holds the reply),
\* "responded" (the UI's request, answered, the response not yet delivered),
\* "noresponse" (the handler ended without writing a response, or the request
\* found no server)
\* after: the ids a DELETE had answered 204 for when the request was sent
Request(method, id, body, pc, ui, after) ==
  [method |-> method, id |-> id, body |-> body, pc |-> pc,
   status |-> NoStatus, resDocs |-> {}, ui |-> ui, after |-> after]

\* the record of no request
Done == Request("-", NoId, EmptyBody, "done", FALSE, {})

Response(r, code, docs) ==
  [method |-> r.method, body |-> r.body, status |-> code, resDocs |-> docs]

NoResponse == Response(Done, NoStatus, {})

Unfinished(r) == r.pc \in {"connecting", "op", "saving", "reply"}

Open == {i \in Reqs : Unfinished(reqs[i])}

\* the requests in flight once the response of request i has been taken
Taken(rs, i) == SubSeq(rs, 1, i - 1) \o SubSeq(rs, i + 1, Len(rs))

\* res.status(code).json(docs) / res.status(code).send() in handler i: an API
\* client takes the response at once, the UI's response waits for its delivery
Responded(rs, i, code, docs) ==
  IF rs[i].ui
    THEN [rs EXCEPT ![i].pc = "responded", ![i].status = code, ![i].resDocs = docs]
    ELSE Taken(rs, i)

\* the store call of handler i has taken effect and replies with docs
Replied(rs, i, docs) == [rs EXCEPT ![i].pc = "reply", ![i].resDocs = docs]

Respond(i, code, docs) ==
  /\ reqs' = Responded(reqs, i, code, docs)
  /\ last' = IF reqs[i].ui THEN last ELSE Response(reqs[i], code, docs)

\* a request whose handler ended without a response: the socket stays open and
\* nothing of the request is used again
Abandoned(r) == [Done EXCEPT !.pc = "noresponse", !.method = r.method, !.ui = r.ui]

\* an await of handler i throws: the handler's promise rejects and no route has
\* a try/catch, so what follows is the build's (see RejectionOutcomes), which
\* the first rejection of the run shows
Reject(i) ==
  /\ onRejection' \in (IF onRejection = "unobserved"
                         THEN RejectionOutcomes ELSE {onRejection})
  /\ CASE onRejection' = "forward500" ->
            Respond(i, ServerError, {})
       [] onRejection' = "ignore" ->
            /\ reqs' = [reqs EXCEPT ![i] = Abandoned(@)]
            /\ last' = last
       [] onRejection' = "exit" ->
            /\ reqs' = [j \in DOMAIN reqs |->
                          IF Unfinished(reqs[j]) THEN Abandoned(reqs[j]) ELSE reqs[j]]
            /\ last' = last
  /\ serverUp' = (onRejection' # "exit")
  /\ UNCHANGED <<db, nextOid, now, sent, everCreated, live, deleted204>>

----------------------------------------------------------------------------
(* connectDB *)

\* the synchronous part of connectDB: return when readyState >= 1, otherwise
\* call mongoose.connect, which sets readyState to connecting at once
connectDB(state) ==
  IF state >= Connected
    THEN [pc |-> "op", readyState |-> state]
    ELSE [pc |-> "connecting", readyState |-> Connecting]

\* a request reaches its route: the handler runs up to `await connectDB()`
Arrive(method, id, body, ui) ==
  /\ serverUp
  /\ reqs' = Append(reqs, Request(method, id, body, connectDB(readyState).pc, ui,
                                   deleted204))
  /\ readyState' = connectDB(readyState).readyState
  /\ sent' = sent + 1
  /\ UNCHANGED <<db, nextOid, now, onRejection, serverUp, last,
                 everCreated, live, deleted204>>

\* mongoose.connect resolves: the handler that awaits it goes on
ConnectOk ==
  /\ readyState = Connecting
  /\ \E i \in Reqs : reqs[i].pc = "connecting"
  /\ readyState' = Connected
  /\ reqs' = [i \in Reqs |->
                IF reqs[i].pc = "connecting" THEN [reqs[i] EXCEPT !.pc = "op"] ELSE reqs[i]]
  /\ UNCHANGED <<db, nextOid, now, sent, onRejection, serverUp, last,
                 everCreated, live, deleted204, tasks, formData, mounted, failed>>

\* mongoose.connect rejects (no server, bad MONGODB_URI): connectDB throws in the
\* handler that awaits it
ConnectFail ==
  /\ readyState = Connecting
  /\ \E i \in Reqs :
       /\ reqs[i].pc = "connecting"
       /\ readyState' = Disconnected
       /\ Reject(i)
  /\ UNCHANGED uiVars

\* the store call handler i awaits rejects: a handler that passed connectDB
\* while another one's connect was in flight has its call buffered by Mongoose,
\* and without a connection the buffered call fails after bufferTimeoutMS; on an
\* open connection the driver reports an error of the server or of the network.
\* The call has had no effect on the collection.
StoreCallFails ==
  /\ \E i \in Reqs :
       /\ \/ reqs[i].pc = "op" /\ reqs[i].method # "POST"
          \/ reqs[i].pc = "saving"
       /\ Reject(i)
  /\ UNCHANGED <<readyState, tasks, formData, mounted, failed>>

----------------------------------------------------------------------------
(* The four routes.  Each has the step of its store call at the store and the
   step in which the handler resumes and responds; app.post first builds the
   document. *)

\* app.post resumes after connectDB: const newTask = new Task(req.body), which
\* reads Date.now and takes an ObjectId, then newTask.save() is awaited
PostNew ==
  /\ \E i \in Reqs :
       /\ reqs[i].pc = "op" /\ reqs[i].method = "POST"
       /\ reqs' = [reqs EXCEPT ![i].pc = "saving",
                               ![i].resDocs = {Task(reqs[i].body, nextOid, now)}]
       /\ nextOid' = IF reqs[i].body.id = NoId THEN nextOid + 1 ELSE nextOid
       /\ now' = now + 1
  /\ UNCHANGED <<db, readyState, sent, onRejection, serverUp, last,
                 everCreated, live, deleted204, tasks, formData, mounted, failed>>

\* newTask.save() at the store: validation, then the insert
PostSave ==
  /\ readyState = Connected
  /\ \E i \in Reqs : \E newTask \in reqs[i].resDocs :
       /\ reqs[i].pc = "saving"
       /\ IF checkRequired(newTask) /\ newTask.id \notin DOMAIN db
            THEN /\ db' = insert(db, newTask)
                 /\ reqs' = Replied(reqs, i, {newTask})
                 /\ live' = live \cup {newTask.id}
                 /\ UNCHANGED <<nextOid, now, sent, onRejection, serverUp, last,
                                everCreated, deleted204>>
            ELSE \* ValidationError, or E11000 duplicate key on _id
                 Reject(i)
  /\ UNCHANGED <<readyState, tasks, formData, mounted, failed>>

\* app.post resumes after save(): res.status(201).json(newTask)
PostRespond ==
  /\ \E i \in Reqs :
       /\ reqs[i].pc = "reply" /\ reqs[i].method = "POST"
       /\ Respond(i, Created, reqs[i].resDocs)
       /\ everCreated' = everCreated \cup IdsOf(reqs[i].resDocs)
  /\ UNCHANGED <<db, readyState, nextOid, now, sent, onRejection, serverUp,
                 live, deleted204, tasks, formData, mounted, failed>>

\* Task.find() at the store
GetFind ==
  /\ readyState = Connected
  /\ \E i \in Reqs :
       /\ reqs[i].pc = "op" /\ reqs[i].method = "GET"
       /\ reqs' = Replied(reqs, i, find(db))
  /\ UNCHANGED <<db, readyState, nextOid, now, sent, onRejection, serverUp, last,
                 everCreated, live, deleted204, tasks, formData, mounted, failed>>

\* app.get resumes after find(): res.status(200).json(tasks)
GetRespond ==
  /\ \E i \in Reqs :
       /\ reqs[i].pc = "reply" /\ reqs[i].method = "GET"
       /\ Respond(i, Ok, reqs[i].resDocs)
  /\ UNCHANGED <<db, readyState, nextOid, now, sent, onRejection, serverUp,
                 everCreated, live, deleted204, tasks, formData, mounted, failed>>

\* Task.findByIdAndUpdate(req.params.id, req.body, {new: true}) at the store
PutUpdate ==
  /\ readyState = Connected
  /\ \E i \in Reqs :
       /\ reqs[i].pc = "op" /\ reqs[i].method = "PUT"
       /\ IF reqs[i].id = BadId
            THEN \* CastError: the :id is no ObjectId
                 Reject(i)
            ELSE /\ db' = findByIdAndUpdate(db, reqs[i].id, reqs[i].body)
                 /\ reqs' = Replied(reqs, i, IF reqs[i].id \in DOMAIN db
                                               THEN {db'[reqs[i].id]} ELSE {})
                 /\ UNCHANGED <<nextOid, now, sent, onRejection, serverUp, last,
                                everCreated, live, deleted204>>
  /\ UNCHANGED <<readyState, tasks, formData, mounted, failed>>

\* app.put resumes after findByIdAndUpdate: res.status(200).json(updatedTask)
PutRespond ==
  /\ \E i \in Reqs :
       /\ reqs[i].pc = "reply" /\ reqs[i].method = "PUT"
       /\ Respond(i, Ok, reqs[i].resDocs)
  /\ UNCHANGED <<db, readyState, nextOid, now, sent, onRejection, serverUp,
                 everCreated, live, deleted204, tasks, formData, mounted, failed>>

\* Task.findByIdAndDelete(req.params.id) at the store
DeleteRemove ==
  /\ readyState = Connected
  /\ \E i \in Reqs :
       /\ reqs[i].pc = "op" /\ reqs[i].method = "DELETE"
       /\ IF reqs[i].id = BadId
            THEN Reject(i)
            ELSE /\ db' = findByIdAndDelete(db, reqs[i].id)
                 /\ reqs' = Replied(reqs, i, {})
                 /\ live' = live \ {reqs[i].id}
                 /\ UNCHANGED <<nextOid, now, sent, onRejection, serverUp, last,
                                everCreated, deleted204>>
  /\ UNCHANGED <<readyState, tasks, formData, mounted, failed>>

\* app.delete resumes after findByIdAndDelete: res.status(204).send()
DeleteRespond ==
  /\ \E i \in Reqs :
       /\ reqs[i].pc = "reply" /\ reqs[i].method = "DELETE"
       /\ Respond(i, NoContent, {})
       /\ deleted204' = deleted204 \cup {reqs[i].id}
  /\ UNCHANGED <<db, readyState, nextOid, now, sent, onRejection, serverUp,
                 everCreated, live, tasks, formData, mounted, failed>>

----------------------------------------------------------------------------
(* The API driven by its clients *)

\* the ids a client can name: those it was given in a 201, one it made up, and
\* a string that is no ObjectId
PathIds == everCreated \cup {ClientId, BadId}

PostTasks ==
  /\ sent < MaxReqs /\ Cardinality(Open) < MaxOpen
  /\ \E body \in PostBodies : Arrive("POST", NoId, body, FALSE)
  /\ UNCHANGED uiVars

GetTasks ==
  /\ sent < MaxReqs /\ Cardinality(Open) < MaxOpen
  /\ Arrive("GET", NoId, EmptyBody, FALSE)
  /\ UNCHANGED uiVars

PutTask ==
  /\ sent < MaxReqs /\ Cardinality(Open) < MaxOpen
  /\ \E id \in PathIds, body \in PutBodies :
       /\ id = BadId => body.title = "X"
       /\ Arrive("PUT", id, body, FALSE)
  /\ UNCHANGED uiVars

DeleteTask ==
  /\ sent < MaxReqs /\ Cardinality(Open) < MaxOpen
  /\ \E id \in PathIds : Arrive("DELETE", id, EmptyBody, FALSE)
  /\ UNCHANGED uiVars

----------------------------------------------------------------------------
(* App: the React component.  Each handler runs to its await; what follows the
   await runs when the response is delivered.  axios rejects on a status
   outside 2xx and on a request that gets no response, and no handler catches:
   the rest of the handler is then skipped. *)

emptyForm == [title |-> "", description |-> "", dueDate |-> EmptyStr]

\* axios sends a request of the UI (after the requests rs): it reaches its route
\* when the server runs, and gets no response when it does not
AxiosSend(rs, method, id, body) ==
  /\ sent < MaxUiReqs /\ Cardinality(Open) < MaxOpen
  /\ sent' = sent + 1
  /\ reqs' = Append(rs, IF serverUp
                          THEN Request(method, id, body, connectDB(readyState).pc,
                                       TRUE, deleted204)
                          ELSE Abandoned(Request(method, id, body, "op", TRUE, {})))
  /\ readyState' = IF serverUp THEN connectDB(readyState).readyState ELSE readyState
  /\ UNCHANGED <<db, nextOid, now, onRejection, serverUp, last,
                 everCreated, live, deleted204>>

\* fetchTasks up to its await: axios.get('/api/tasks')
fetchTasks(rs) == AxiosSend(rs, "GET", NoId, EmptyBody)

\* the response of the UI's request i has arrived with a 2xx status
Delivered(i, method) ==
  /\ reqs[i].ui /\ reqs[i].pc = "responded" /\ reqs[i].method = method
  /\ reqs[i].status \in {Ok, Created, NoContent}

\* ReactDOM.render(<App />): the first render runs useEffect(() => fetchTasks(), [])
Mount ==
  /\ ~mounted
  /\ mounted' = TRUE
  /\ fetchTasks(reqs)
  /\ UNCHANGED <<tasks, formData, failed>>

\* handleChange: setFormData({...formData, [e.target.name]: e.target.value})
handleChange ==
  /\ mounted
  /\ \/ \E value \in {"A", ""} : formData' = [formData EXCEPT !.title = value]
     \/ formData' = [formData EXCEPT !.description = "d"]
  /\ formData' # formData
  /\ UNCHANGED <<db, readyState, nextOid, now, sent, onRejection, serverUp, reqs, last,
                 everCreated, live, deleted204, tasks, mounted, failed>>

\* handleSubmit up to its await: axios.post('/api/tasks', formData); the title
\* field is `required`, so the form does not submit with an empty title
handleSubmit ==
  /\ mounted
  /\ formData.title # ""
  /\ AxiosSend(reqs, "POST", NoId,
               [EmptyBody EXCEPT !.title = formData.title,
                                 !.description = formData.description,
                                 !.dueDate = formData.dueDate])
  /\ UNCHANGED uiVars

\* handleSubmit after its await: fetchTasks(); setFormData({title: '', ...})
handleSubmitResume ==
  /\ \E i \in Reqs :
       /\ Delivered(i, "POST")
       /\ fetchTasks(Taken(reqs, i))
  /\ formData' = emptyForm
  /\ UNCHANGED <<tasks, mounted, failed>>

\* handleEdit up to its await, from the Edit button of a displayed task
handleEdit ==
  /\ \E id \in IdsOf(tasks) : AxiosSend(reqs, "PUT", id, updatedTask)
  /\ UNCHANGED uiVars

\* handleEdit after its await: fetchTasks()
handleEditResume ==
  /\ \E i \in Reqs :
       /\ Delivered(i, "PUT")
       /\ fetchTasks(Taken(reqs, i))
  /\ UNCHANGED uiVars

\* handleDelete up to its await, from the Delete button of a displayed task
handleDelete ==
  /\ \E id \in IdsOf(tasks) : AxiosSend(reqs, "DELETE", id, EmptyBody)
  /\ UNCHANGED uiVars

\* handleDelete after its await: fetchTasks()
handleDeleteResume ==
  /\ \E i \in Reqs :
       /\ Delivered(i, "DELETE")
       /\ fetchTasks(Taken(reqs, i))
  /\ UNCHANGED uiVars

\* fetchTasks after its await: setTasks(response.data)
fetchTasksResume ==
  /\ \E i \in Reqs :
       /\ Delivered(i, "GET")
       /\ tasks' = reqs[i].resDocs
       /\ reqs' = Taken(reqs, i)
  /\ UNCHANGED <<db, readyState, nextOid, now, sent, onRejection, serverUp, last,
                 everCreated, live, deleted204, formData, mounted, failed>>

\* a 500 is delivered, or the connection of an unanswered request is closed by
\* the exit of the server, or the server is not there: the axios call throws
\* and the rest of the handler is skipped
AxiosError ==
  /\ \E i \in Reqs :
       /\ reqs[i].ui
       /\ \/ reqs[i].pc = "responded" /\ reqs[i].status = ServerError
          \/ reqs[i].pc = "noresponse" /\ ~serverUp
       /\ reqs' = Taken(reqs, i)
  /\ failed' = TRUE
  /\ UNCHANGED <<db, readyState, nextOid, now, sent, onRejection, serverUp, last,
                 everCreated, live, deleted204, tasks, formData, mounted>>

Init ==
  /\ db = [i \in {} |-> NoDoc]
  /\ readyState = Disconnected
  /\ nextOid = 1
  /\ now = 1
  /\ onRejection = "unobserved"
  /\ serverUp = TRUE
  /\ reqs = <<>>
  /\ sent = 0
  /\ last = NoResponse
  /\ everCreated = {}
  /\ live = {}
  /\ deleted204 = {}
  /\ tasks = {}
  /\ formData = emptyForm
  /\ mounted = FALSE
  /\ failed = FALSE

Next ==
  \/ PostTasks
  \/ GetTasks
  \/ PutTask
  \/ DeleteTask
  \/ ConnectOk
  \/ ConnectFail
  \/ StoreCallFails
  \/ PostNew
  \/ PostSave
  \/ PostRespond
  \/ GetFind
  \/ GetRespond
  \/ PutUpdate
  \/ PutRespond
  \/ DeleteRemove
  \/ DeleteRespond

Spec == Init /\ [][Next]_vars

\* the UI as the only client
NextUI ==
  \/ Mount
  \/ handleChange
  \/ handleSubmit
  \/ handleSubmitResume
  \/ handleEdit
  \/ handleEditResume
  \/ handleDelete
  \/ handleDeleteResume
  \/ fetchTasksResume
  \/ AxiosError
  \/ ConnectOk
  \/ ConnectFail
  \/ StoreCallFails
  \/ PostNew
  \/ PostSave
  \/ PostRespond
  \/ GetFind
  \/ GetRespond
  \/ PutUpdate
  \/ PutRespond
  \/ DeleteRemove
  \/ DeleteRespond

SpecUI == Init /\ [][NextUI]_vars

----------------------------------------------------------------------------
(* Properties *)

\* the step is the effect at the store of the call handler i awaits
StoreCall(i, method) ==
  /\ reqs[i].method = method /\ reqs[i].pc \in {"op", "saving"}
  /\ Len(reqs') = Len(reqs) /\ reqs'[i].pc = "reply"

\* the step is handler i resuming with the reply of its store call and
\* responding
Resumes(i, method) ==
  reqs[i].method = method /\ reqs[i].pc = "reply" /\ reqs' = Taken(reqs, i)

Documents == {db[k] : k \in DOMAIN db}

TitleOnly == [EmptyBody EXCEPT !.title = "X"]

\* C1: after any sequence of successful POST, PUT and DELETE requests, GET
\* /api/tasks responds 200 with exactly the tasks created and not deleted
\* since.  The list find() reads is the documents of the collection, one per
\* id, and their ids are exactly the ids inserted by a save() and not removed
\* by a findByIdAndDelete since, in the order the store applied them; and the
\* handler answers 200 with the list it read.
C1_GetReturnsCreatedNotDeleted ==
  [][\A i \in Reqs :
       /\ StoreCall(i, "GET")
            => /\ reqs'[i].resDocs = Documents
               /\ IdsOf(reqs'[i].resDocs) = live
               /\ Cardinality(reqs'[i].resDocs) = Cardinality(live)
       /\ Resumes(i, "GET")
            => /\ last'.status = Ok
               /\ last'.resDocs = reqs[i].resDocs]_vars

\* C1 witness: after two tasks were created and answered, a GET has returned
\* exactly those two
C1_Witness ==
  /\ last.method = "GET" /\ last.status = Ok
  /\ reqs = <<>>
  /\ Cardinality(live) = 2
  /\ IdsOf(last.resDocs) = live
  /\ last.resDocs = Documents
  /\ \E d \in last.resDocs : d.isCompleted

\* C2: every POST with a non-empty title that responds 201 carries an id
\* different from the id of every task created before it in the run, deleted
\* tasks included.
C2_CreatedIdIsNew ==
  [][\A i \in Reqs :
       (Resumes(i, "POST") /\ last'.status = Created)
         => \A d \in last'.resDocs : d.id \notin everCreated]_vars

BadTitle(body) == body.title \in {Undef, ""}

\* C3: a POST whose body has a missing or empty title fails and adds no
\* record: its save() never takes effect at the store, the step that ends its
\* save() leaves the collection as it was, and it is never answered 201.
C3_NoTitleNoRecord ==
  [][/\ \A i \in Reqs :
          (reqs[i].method = "POST" /\ BadTitle(reqs[i].body) /\ reqs[i].pc = "saving")
            => /\ ~StoreCall(i, "POST")
               /\ (Len(reqs') = Len(reqs) /\ reqs'[i] = reqs[i]) \/ db' = db
     /\ (last'.method = "POST" /\ BadTitle(last'.body)) => last'.status # Created]_vars

\* C3 witness: on an open connection a POST with an empty title has gone
\* through new Task and save() and was answered 500 or not at all, after a POST
\* that stored a task, which is still the only one
C3_Witness ==
  /\ readyState = Connected
  /\ Cardinality(DOMAIN db) = 1
  /\ \/ last.method = "POST" /\ last.body.title = "" /\ last.status = ServerError
     \/ \E i \in Reqs : reqs[i].method = "POST" /\ reqs[i].pc = "noresponse"
  /\ now > 2

\* C4: PUT /api/tasks/:id with body {title: "X"} on an existing id changes only
\* the title of that task (every other field of it, every other task and the
\* number of tasks stay), and responds 200 with the task as it is after the
\* update: the update at the store changes only that title and replies with the
\* updated task, and the handler answers 200 with that reply, changing nothing.
C4_PutTitleChangesOnlyTitle ==
  [][\A i \in Reqs :
       /\ (StoreCall(i, "PUT") /\ reqs[i].body = TitleOnly /\ reqs[i].id \in DOMAIN db)
            => /\ db' = [db EXCEPT ![reqs[i].id].title = "X"]
               /\ DOMAIN db' = DOMAIN db
               /\ reqs'[i].resDocs = {db'[reqs[i].id]}
       /\ (Resumes(i, "PUT") /\ reqs[i].body = TitleOnly /\ reqs[i].resDocs # {})
            => /\ db' = db
               /\ last'.status = Ok
               /\ last'.resDocs = reqs[i].resDocs]_vars

\* C4 witness: a PUT {title: "X"} was answered 200 with a task that has the new
\* title and still has the description and due date it was created with
C4_Witness ==
  /\ last.method = "PUT" /\ last.body = TitleOnly /\ last.status = Ok
  /\ \E d \in last.resDocs :
       /\ d.title = "X"
       /\ d.description = "d"
       /\ d.dueDate = EditDate
       /\ d \in Documents

\* C5: a PUT for an id that is not in the store responds with a failure status
\* and neither creates nor changes a task.
C5_PutAbsentFails ==
  [][\A i \in Reqs :
       /\ (StoreCall(i, "PUT") /\ reqs[i].id \notin DOMAIN db) => db' = db
       /\ (Resumes(i, "PUT") /\ reqs[i].resDocs = {})
            => last'.status \notin {Ok, Created, NoContent}]_vars

\* C6: once a DELETE has responded 204 for an id, no request sent later is
\* answered with a task of that id: no later GET lists it and no later POST
\* or PUT creates it again.
C6_DeletedNeverListed ==
  [][\A i \in Reqs :
       (reqs[i].pc = "reply" /\ reqs' = Taken(reqs, i))
         => IdsOf(last'.resDocs) \cap reqs[i].after = {}]_vars

\* C7: every stored task has a non-empty title.
C7_TitleNeverEmpty ==
  \A k \in DOMAIN db : db[k].title \notin {Undef, ""}

\* C8: the createdAt of a task never changes for as long as the task exists.
C8_CreatedAtImmutable ==
  [][\A k \in DOMAIN db \cap DOMAIN db' : db'[k].createdAt = db[k].createdAt]_vars

\* C9: no request is left without a response: a handler whose store call fails
\* answers 500.
C9_FailureAnswered500 ==
  \A i \in Reqs : reqs[i].pc # "noresponse"

\* C10: once every request the UI has sent has completed, none of them failed,
\* the displayed list equals the stored tasks.
C10_DisplayedEqualsStored ==
  (mounted /\ reqs = <<>> /\ ~failed) => tasks = Documents

====
